---- MODULE Spec2Model ----
(***************************************************************************)
(* Offline pending-operation queue and reconciliation of the contact       *)
(* manager: ContactService and SyncService (contact.service.ts) against    *)
(* the Express/SQLite backend (server.js).                                 *)
(*                                                                         *)
(* JavaScript runs one callback at a time; an async method runs without    *)
(* interruption up to its next await of an HTTP call.  Each action below   *)
(* is one such uninterrupted stretch.  An HTTP call is two steps: the      *)
(* request is issued and the method is suspended; the backend handles the  *)
(* request (or the transport fails) and the method resumes with the        *)
(* answer.  Answers reach the client in the order the backend gave them.   *)
(***************************************************************************)
EXTENDS Integers, Sequences, FiniteSets, TLC

\* ---------------------------------------------------------------- bounds
MaxIds == 2      \* ids generateId hands out
MaxCalls == 2    \* engine calls made by the user interface
MaxClock == 1    \* largest value Date.now() takes
MaxTasks == 2    \* engine operations suspended on a remote call at once
MaxTimers == 1   \* reconnect timers pending at once
MaxReconnects == 2  \* became-online transitions
MaxBatch == 2    \* users a random batch holds

VARIABLES
  online,          \* SyncService.isOnlineSignal
  contacts,        \* ContactService.contactsSignal
  error,           \* ContactService.errorSignal
  loading,         \* ContactService.loadingSignal
  storedContacts,  \* localStorage['contacts_offline']
  pendingOps,      \* localStorage['pending_operations']
  db,              \* rows of the backend's contacts table
  now,             \* the last value Date.now() returned
  nextId,          \* number of ids generateId has handed out
  timers,          \* pending setTimeout(syncPendingOperations, 100)
  reconnects,      \* number of 'online' events so far
  tasks,           \* engine operations suspended on a remote call
  calls,           \* number of engine calls made so far
  uuids,           \* number of ids uuidv4() has handed out in the backend
  storage,         \* what localStorage does: works, rejects writes, rejects all
  ev               \* the step just taken: operation, path, returned value

vars == <<online, contacts, error, loading, storedContacts, pendingOps, db,
          now, nextId, timers, reconnects, tasks, calls, uuids, storage,
          ev>>

\* ---------------------------------------------------------------- values
Undefined == "undefined"
Null == "null"
\* null where a contact is expected, and where a form is.
NoContact == [id |-> -1]
NoForm == [email |-> Null]

\* ContactFormData: the fields the engine treats differently; phone, cell,
\* location and age are copied through like name.  The forms the user
\* submits: the seed's email with no picture, a new email with a new
\* picture, a new email with the seed's large picture.
Forms ==
  { [name |-> "a", email |-> "e1", picture |-> Undefined],
    [name |-> "b", email |-> "e2", picture |-> "p4"],
    [name |-> "a", email |-> "e2", picture |-> "p1"] }

\* The row a random batch left in the table in an earlier session: its three
\* picture URLs differ.
SeedId == 0
SeedRow ==
  [id |-> SeedId, name |-> "b", email |-> "e1",
   picture_large |-> "p1", picture_medium |-> "p2", picture_thumbnail |-> "p3"]

\* x || ''
OrEmpty(x) == IF x \in {Undefined, Null, ""} THEN "" ELSE x

\* An optional boolean that is absent reads as falsy.
Falsy == FALSE

\* ------------------------------------------------------- backend helpers
transformContactFromDB(row) ==
  [id |-> row.id, name |-> row.name, email |-> row.email,
   picture |-> [large |-> row.picture_large, medium |-> row.picture_medium,
                thumbnail |-> row.picture_thumbnail],
   isFavorite |-> Falsy, pendingSync |-> Falsy]

\* The client always sends an id, so the uuidv4() default is never taken.
transformContactForDB(contact) ==
  [id |-> contact.id, name |-> OrEmpty(contact.name), email |-> contact.email,
   picture_large |-> OrEmpty(contact.picture.large),
   picture_medium |-> OrEmpty(contact.picture.medium),
   picture_thumbnail |-> OrEmpty(contact.picture.thumbnail)]

\* Collation order of the names ('' sorts first).
NameRank(n) == IF n = "a" THEN 1 ELSE IF n = "b" THEN 2 ELSE 0

\* SELECT * FROM contacts ORDER BY name_last, name_first: every order of the
\* rows that is sorted by name (rows with equal names come in any order).
SelectAll(rows) ==
  LET n == Cardinality(rows) IN
  { s \in [1..n -> rows] :
      /\ \A i, j \in 1..n : i # j => s[i] # s[j]
      /\ \A i \in 1..n : \A j \in 1..n :
            i < j => NameRank(s[i].name) <= NameRank(s[j].name) }

\* ------------------------------------------------------------- responses
\* body: the contact of the answer; contacts: its list of contacts.
Resp(status, body) == [status |-> status, body |-> body, contacts |-> <<>>]
RespList(status, list) ==
  [status |-> status, body |-> NoContact, contacts |-> list]
\* firstValueFrom(http...) resolves on a 2xx answer and rejects otherwise
\* (status 0: the transport failed).
Resolved(resp) == resp.status \in {200, 201}

\* ------------------------------------------------------ backend handlers
\* INSERT fails on the PRIMARY KEY (id) and on the UNIQUE column (email).
InsertFails(rows, row) ==
  \E r \in rows : r.id = row.id \/ r.email = row.email

\* Faulty variant: the backend stores the contact under an id of its own.
post_contacts_serverId(rows, body) ==
  LET contactData == transformContactForDB([body EXCEPT !.id = body.id + 10]) IN
  IF InsertFails(rows, contactData)
    THEN [db |-> rows, resp |-> Resp(500, NoContact)]
    ELSE [db |-> rows \cup {contactData},
          resp |-> Resp(201, [body EXCEPT !.id = contactData.id])]

\* app.post('/api/contacts')
post_contacts(rows, body) ==
  LET contactData == transformContactForDB(body) IN
  IF InsertFails(rows, contactData)
    THEN [db |-> rows, resp |-> Resp(500, NoContact)]
    ELSE [db |-> rows \cup {contactData},
          resp |-> Resp(201, [body EXCEPT !.id = contactData.id])]

\* An UPDATE of the row with this id fails when it would give it the email
\* of another row.
UpdateFails(rows, id, row) ==
  /\ \E r \in rows : r.id = id
  /\ \E r \in rows : r.id # id /\ r.email = row.email

\* Faulty variant: a PUT for an id the table does not hold inserts the row.
put_contacts_upsert(rows, id, body) ==
  LET contactData == transformContactForDB([body EXCEPT !.id = id]) IN
  IF \E r \in rows : r.id # id /\ r.email = contactData.email
    THEN [db |-> rows, resp |-> Resp(500, NoContact)]
    ELSE [db |-> {r \in rows : r.id # id} \cup {contactData},
          resp |-> Resp(200, [body EXCEPT !.id = id])]

\* app.put('/api/contacts/:id')
put_contacts(rows, id, body) ==
  LET contactData == transformContactForDB([body EXCEPT !.id = id]) IN
  IF UpdateFails(rows, id, contactData)
    THEN [db |-> rows, resp |-> Resp(500, NoContact)]
  ELSE IF ~ \E r \in rows : r.id = id
    THEN [db |-> rows, resp |-> Resp(404, NoContact)]
    ELSE [db |-> {r \in rows : r.id # id} \cup {contactData},
          resp |-> Resp(200, [body EXCEPT !.id = id])]

\* app.delete('/api/contacts/:id')
delete_contacts(rows, id) ==
  IF ~ \E r \in rows : r.id = id
    THEN [db |-> rows, resp |-> Resp(404, NoContact)]
    ELSE [db |-> {r \in rows : r.id # id}, resp |-> Resp(200, NoContact)]

\* app.get('/api/contacts'): one of the sorted orders of the table.
get_contacts(rows) ==
  { [db |-> rows,
     resp |-> RespList(200, [i \in 1..Len(s) |-> transformContactFromDB(s[i])])] :
    s \in SelectAll(rows) }

\* What randomuser.me can return for one user: a person whose email no
\* contact has yet, and a person with the seed's email.
RandomUsers ==
  { [name |-> "a", email |-> "e3",
     picture |-> [large |-> "p5", medium |-> "p6", thumbnail |-> "p7"]],
    [name |-> "b", email |-> "e1",
     picture |-> [large |-> "p5", medium |-> "p6", thumbnail |-> "p7"]] }

\* The ids uuidv4() hands out are apart from the ids the client makes.
UuidBase == 100

\* app.post('/api/contacts/random'), the loop: the users are inserted one
\* after the other under fresh ids; the first INSERT that fails ends the
\* loop with 500, and the rows inserted before it stay in the table.
\* n: the ids handed out so far; inserted: insertedContacts.
RECURSIVE insertUsers(_, _, _, _)
insertUsers(rows, users, n, inserted) ==
  IF users = <<>>
    THEN [db |-> rows, uuids |-> n, resp |-> RespList(201, inserted)]
    ELSE LET user == Head(users)
             contactData == transformContactForDB(
               [id |-> UuidBase + n, name |-> user.name, email |-> user.email,
                picture |-> user.picture]) IN
         IF InsertFails(rows, contactData)
           THEN [db |-> rows, uuids |-> n + 1, resp |-> RespList(500, <<>>)]
           ELSE insertUsers(rows \cup {contactData}, Tail(users), n + 1,
                            Append(inserted, transformContactFromDB(contactData)))

\* app.post('/api/contacts/random'): randomuser.me answers with count users,
\* or the call to it fails and the route answers 500.
post_contacts_random(rows, count, n) ==
  { insertUsers(rows, users, n, <<>>) : users \in [1..count -> RandomUsers] }
    \cup {[db |-> rows, uuids |-> n, resp |-> RespList(500, <<>>)]}

\* The answers the backend can give to a request.
Handle(rows, req) ==
  CASE req.method = "POST" -> {post_contacts(rows, req.body)}
    [] req.method = "PUT" -> {put_contacts(rows, req.id, req.body)}
    [] req.method = "DELETE" -> {delete_contacts(rows, req.id)}
    [] req.method = "GET" -> get_contacts(rows)

\* count: the size of the batch a random request asks for.
Req(method, id, body) ==
  [method |-> method, id |-> id, body |-> body, count |-> 0]
NoReq == Req("none", -1, NoContact)

\* ------------------------------------------------------- client helpers
\* ContactService.transformFormDataToContact; isFavorite and pendingSync
\* are left absent.
transformFormDataToContact(formData, id) ==
  [id |-> id, name |-> formData.name, email |-> formData.email,
   picture |-> [large |-> OrEmpty(formData.picture),
                medium |-> OrEmpty(formData.picture),
                thumbnail |-> OrEmpty(formData.picture)],
   isFavorite |-> Falsy, pendingSync |-> Falsy]

\* contacts.findIndex(c => c.id === id), 0 for -1
findIndex(cs, id) ==
  IF \E i \in 1..Len(cs) : cs[i].id = id
    THEN CHOOSE i \in 1..Len(cs) :
           cs[i].id = id /\ \A j \in 1..(i - 1) : cs[j].id # id
    ELSE 0

\* contacts.filter(c => c.id !== id)
RECURSIVE withoutId(_, _)
withoutId(cs, id) ==
  IF cs = <<>> THEN <<>>
  ELSE IF Head(cs).id = id THEN withoutId(Tail(cs), id)
  ELSE <<Head(cs)>> \o withoutId(Tail(cs), id)

\* The values Date.now() can return next: the clock does not go back, and
\* two readings within a millisecond agree.
\* localStorage.setItem throws: the quota is used up, or storage is denied.
WriteFails == storage # "ok"
\* localStorage.getItem throws: storage is denied.
ReadFails == storage = "denied"

\* SyncService.saveContactsToStorage: the snapshot after the call.  A write
\* that throws is logged and leaves the snapshot as it was.
saveContactsToStorage(cs) == IF WriteFails THEN storedContacts ELSE cs

\* SyncService.loadContactsFromStorage: the collection it returns, the empty
\* one when the read throws.
loadContactsFromStorage == IF ReadFails THEN <<>> ELSE storedContacts

\* Faulty variant: no try encloses any point.
handler_none(point) == 0

\* The catch clause that takes an exception raised at a point of the engine:
\* the line of the catch of the innermost try around the point, 0 when no
\* try encloses it.
handler(point) ==
  CASE point = "loadContacts.get" -> 52
    [] point = "createContact.post" -> 90
    [] point = "deleteContact.delete" -> 131
    [] point = "addRandomContacts.post" -> 150
    [] point = "performContactUpdate.put" -> 204
    [] point = "loadContactsFromStorage.getItem" -> 312
    [] point = "saveContactsToStorage.setItem" -> 321
    [] point = "addPendingOperation.getItem" -> 339
    [] point = "addPendingOperation.setItem" -> 339
    [] point = "syncPendingOperations.replay" -> 365
    [] point = "syncPendingOperations.getItem" -> 386
    [] point = "syncPendingOperations.setItem" -> 386
    [] point = "softRefreshContacts.get" -> 420
    [] OTHER -> 0

\* The points that raise when the snapshot is saved, when the snapshot is
\* read, and when a record is appended to the pending log.
SaveFailed == IF WriteFails THEN {"saveContactsToStorage.setItem"} ELSE {}
ReadFailed == IF ReadFails THEN {"loadContactsFromStorage.getItem"} ELSE {}
AddFailed ==
  IF ReadFails THEN {"addPendingOperation.getItem"}
  ELSE IF WriteFails THEN {"addPendingOperation.setItem"}
  ELSE {}

ClockReadings == {t \in now..MaxClock : t <= now + 1}

\* Faulty variant: the record is put at the front of the log.
addPendingOperation_prepend(ops, operation, contact, t) ==
  <<[id |-> t, operation |-> operation, data |-> contact,
     timestamp |-> t, retryCount |-> 0]>> \o ops

\* Faulty variant: no record is written.
addPendingOperation_dropped(ops, operation, contact, t) == ops

\* Faulty variant: the record is written twice.
addPendingOperation_twice(ops, operation, contact, t) ==
  ops \o << [id |-> t, operation |-> operation, data |-> contact,
              timestamp |-> t, retryCount |-> 0],
            [id |-> t, operation |-> operation, data |-> contact,
              timestamp |-> t, retryCount |-> 0] >>

\* SyncService.addPendingOperation: the record's id is Date.now().
addPendingOperation(ops, operation, contact, t) ==
  IF WriteFails
    THEN ops
    ELSE Append(ops, [id |-> t, operation |-> operation, data |-> contact,
                      timestamp |-> t, retryCount |-> 0])

\* successfulOperations.includes(id)
includes(successful, id) == \E k \in 1..Len(successful) : successful[k] = id

\* Faulty variant: the rewrite keeps every record.
remainingOperations_keepAll(ops, successful) == ops

\* Faulty variant: the records that stay have their retryCount raised.
remainingOperations_countRetries(ops, successful) ==
  LET kept == SelectSeq(ops, LAMBDA op : ~ includes(successful, op.id)) IN
  [k \in 1..Len(kept) |-> [kept[k] EXCEPT !.retryCount = @ + 1]]

\* operations.filter(op => !successfulOperations.includes(op.id))
remainingOperations(ops, successful) ==
  SelectSeq(ops, LAMBDA op : ~includes(successful, op.id))

\* Faulty variant: a DELETE is replayed for the id of the record, not for the
\* id of the contact it carries.
ReplayRequest_byRecordId(op) ==
  CASE op.operation = "CREATE" -> Req("POST", op.data.id, op.data)
    [] op.operation = "UPDATE" -> Req("PUT", op.data.id, op.data)
    [] op.operation = "DELETE" -> Req("DELETE", op.id, NoContact)

\* The remote call syncPendingOperations makes for a queued record.
ReplayRequest(op) ==
  CASE op.operation = "CREATE" -> Req("POST", op.data.id, op.data)
    [] op.operation = "UPDATE" -> Req("PUT", op.data.id, op.data)
    [] op.operation = "DELETE" -> Req("DELETE", op.data.id, NoContact)

\* ----------------------------------------------------------------- tasks
Idle == [kind |-> "idle"]
Slots == 1..MaxTasks
HasFree == \E i \in Slots : tasks[i] = Idle
FreeSlot == CHOOSE i \in Slots : tasks[i] = Idle /\ \A j \in 1..(i - 1) : tasks[j] # Idle

\* What a suspended call can resume with: an answer of the backend, with the
\* table it leaves, or a transport failure that leaves the table alone.
Answers(req) ==
  Handle(db, req) \cup {[db |-> db, resp |-> Resp(0, NoContact)]}

\* A mutation call made while a drain is suspended disturbs it.
Disturbed ==
  [i \in Slots |-> IF tasks[i].kind = "sync"
                     THEN [tasks[i] EXCEPT !.quiet = FALSE] ELSE tasks[i]]

\* The step just taken.
\* op: the operation; path: the branch it took; done: it returned in this
\* step; ok: it returned a contact (or true); ret: the contact returned;
\* status: the status of the answer it resumed with; arg: the form passed;
\* failed: the points that raised an exception in this step; threw: one of
\* them was taken by no catch, so the operation threw to its caller.
EvS(op, path, done, id, ok, ret, status) ==
  [op |-> op, path |-> path, done |-> done, id |-> id, ok |-> ok,
   ret |-> ret, status |-> status, arg |-> NoForm, failed |-> {},
   threw |-> FALSE]
Failing(e, points) ==
  [e EXCEPT !.failed = points, !.threw = \E q \in points : handler(q) = 0]
WithArg(e, formData) == [e EXCEPT !.arg = formData]
Ev(op, path, done, id, ok, ret) == EvS(op, path, done, id, ok, ret, -1)
Path == IF online THEN "online" ELSE "offline"
\* A step of the environment: connectivity, the backend, the transport.
EnvEv == Ev("env", "none", TRUE, -1, FALSE, NoContact)

\* Ids the user interface can name: the seed and every id handed out.
KnownIds == SeedId..nextId

\* ------------------------------------------------------------------ Init
\* After both constructors ran: the connectivity flag is navigator.onLine,
\* the collection is what an earlier session left in localStorage, the
\* pending log is empty, and table and snapshot both hold the seed or nothing.
Init ==
  /\ online \in BOOLEAN
  /\ \/ db = {} /\ storedContacts = <<>>
     \/ db = {SeedRow} /\ storedContacts = <<transformContactFromDB(SeedRow)>>
  /\ contacts = storedContacts
  /\ error = Null
  /\ loading = FALSE
  /\ pendingOps = <<>>
  /\ now = 0
  /\ nextId = 0
  /\ timers = 0
  /\ reconnects = 0
  /\ tasks = [i \in Slots |-> Idle]
  /\ calls = 0
  /\ uuids = 0
  /\ storage = "ok"
  /\ ev = EnvEv

\* ----------------------------------------------------------- environment
\* Faulty variant: the flag is set and no drain is scheduled.
BecameOnline_noTimer ==
  /\ ~online
  /\ reconnects < MaxReconnects
  /\ reconnects' = reconnects + 1
  /\ online' = TRUE
  /\ ev' = EnvEv
  /\ UNCHANGED <<contacts, error, loading, storedContacts, pendingOps, db,
                 now, nextId, timers, tasks, calls, uuids, storage>>

\* window 'online': the flag is set and the drain is scheduled in 100 ms.
BecameOnline ==
  /\ UNCHANGED <<uuids, storage>>
  /\ ~online
  /\ timers < MaxTimers
  /\ reconnects < MaxReconnects
  /\ reconnects' = reconnects + 1
  /\ online' = TRUE
  /\ timers' = timers + 1
  /\ ev' = EnvEv
  /\ UNCHANGED <<contacts, error, loading, storedContacts, pendingOps, db,
                 now, nextId, tasks, calls>>

\* window 'offline': the flag is cleared, nothing else.
BecameOffline ==
  /\ UNCHANGED <<uuids, storage>>
  /\ online
  /\ online' = FALSE
  /\ ev' = EnvEv
  /\ UNCHANGED <<contacts, error, loading, storedContacts, pendingOps, db,
                 now, nextId, timers, reconnects, tasks, calls>>

\* --------------------------------------------------------- loadContacts
\* JSON.stringify / JSON.parse keep strings, numbers and booleans and drop
\* absent fields, which are absent here too: the snapshot read back is the
\* snapshot written.
\* ContactService.loadContacts up to its await (online) or to its end.
\* slot: where the operation is kept while suspended; rest: the other
\* suspended operations; task: what the caller keeps across the await.
LoadStart(slot, rest, task) ==
  /\ error' = Null
  /\ IF online
       THEN /\ loading' = TRUE
            /\ tasks' = [rest EXCEPT ![slot] =
                 [task EXCEPT !.req = Req("GET", -1, NoContact)]]
            /\ UNCHANGED contacts
       ELSE /\ contacts' = loadContactsFromStorage
            /\ loading' = FALSE
            /\ tasks' = [rest EXCEPT ![slot] = Idle]
  /\ UNCHANGED storedContacts

\* The points that raise in LoadStart.
LoadStartFailed == IF online THEN {} ELSE ReadFailed

\* Faulty variant: the error of a rejected GET stays set whatever the
\* snapshot holds.
LoadFinish_errorStays(resp) ==
  IF Resolved(resp)
    THEN /\ contacts' = resp.contacts
         /\ storedContacts' = saveContactsToStorage(resp.contacts)
         /\ loading' = FALSE
         /\ UNCHANGED error
    ELSE /\ contacts' = loadContactsFromStorage
         /\ error' = "Failed to load contacts from server"
         /\ loading' = FALSE
         /\ UNCHANGED storedContacts

\* ContactService.loadContacts after its await.
LoadFinish(resp) ==
  IF Resolved(resp)
    THEN /\ contacts' = resp.contacts
         /\ storedContacts' = saveContactsToStorage(resp.contacts)
         /\ loading' = FALSE
         /\ UNCHANGED error
    ELSE /\ contacts' = loadContactsFromStorage
         /\ error' = IF Len(loadContactsFromStorage) > 0
                       THEN Null ELSE "Failed to load contacts from server"
         /\ loading' = FALSE
         /\ UNCHANGED storedContacts

\* The points that raise in LoadFinish.
LoadFinishFailed(resp) ==
  IF Resolved(resp) THEN SaveFailed ELSE {"loadContacts.get"} \cup ReadFailed

LoadContacts ==
  /\ UNCHANGED <<uuids, storage>>
  /\ calls < MaxCalls
  /\ calls' = calls + 1
  /\ HasFree
  /\ LoadStart(FreeSlot, tasks, [kind |-> "load", req |-> NoReq])
  /\ ev' = Failing(Ev("loadContacts", Path, ~online, -1, FALSE, NoContact),
                   LoadStartFailed)
  /\ UNCHANGED <<online, pendingOps, db, now, nextId, timers, reconnects>>

LoadResume(i) ==
  /\ UNCHANGED <<uuids, storage>>
  /\ tasks[i].kind = "load"
  /\ \E out \in Answers(tasks[i].req) :
       /\ db' = out.db
       /\ LoadFinish(out.resp)
       /\ ev' = Failing(EvS("loadContacts", "online", TRUE, -1,
                            Resolved(out.resp), NoContact, out.resp.status),
                        LoadFinishFailed(out.resp))
  /\ tasks' = [tasks EXCEPT ![i] = Idle]
  /\ UNCHANGED <<online, pendingOps, now, nextId, timers, reconnects,
                 calls>>

\* -------------------------------------------------------- createContact
\* generateId: a token no earlier call returned.  The offline path draws a
\* second token and drops the first; only the one kept is counted.
CreateContact(formData) ==
  /\ UNCHANGED <<uuids, storage>>
  /\ calls < MaxCalls
  /\ nextId < MaxIds
  /\ calls' = calls + 1
  /\ nextId' = nextId + 1
  /\ LET newContact == transformFormDataToContact(formData, nextId + 1) IN
     IF online
       THEN /\ HasFree
            /\ tasks' = [Disturbed EXCEPT ![FreeSlot] =
                 [kind |-> "create", op |-> "createContact", arg |-> formData,
                  req |-> Req("POST", newContact.id, newContact)]]
            /\ ev' = WithArg(Ev("createContact", "online", FALSE, newContact.id,
                                FALSE, NoContact), formData)
            /\ UNCHANGED <<contacts, storedContacts, pendingOps, now>>
       ELSE LET queued == [newContact EXCEPT !.pendingSync = TRUE]
                updatedContacts == Append(contacts, queued) IN
            /\ contacts' = updatedContacts
            /\ storedContacts' = saveContactsToStorage(updatedContacts)
            /\ \E t \in ClockReadings :
                 /\ now' = t
                 /\ pendingOps' = addPendingOperation(pendingOps, "CREATE", queued, t)
            /\ ev' = Failing(WithArg(Ev("createContact", "offline", TRUE, queued.id,
                                        TRUE, queued), formData),
                             SaveFailed \cup AddFailed)
            /\ tasks' = Disturbed
  /\ UNCHANGED <<online, error, loading, db, timers, reconnects>>

\* Faulty variant: a rejected create records no error.
createError_none(resp) == Null

\* The catch of createContact: the error recorded for a rejected POST.
createError(resp) ==
  IF resp.status = 409
    THEN "Email already exists. Please use a different email address."
    ELSE "Failed to create contact"

\* Faulty variant: a create the backend rejected falls back to the offline
\* path: the contact is cached with pendingSync and queued.
CreateResume_queueOnFailure(i) ==
  /\ UNCHANGED <<uuids, storage>>
  /\ tasks[i].kind = "create"
  /\ \E out \in Answers(tasks[i].req) :
     LET resp == out.resp
         queued == [tasks[i].req.body EXCEPT !.pendingSync = TRUE] IN
     /\ db' = out.db
     /\ IF Resolved(resp)
       THEN LET updatedContacts == Append(contacts, resp.body) IN
            /\ contacts' = updatedContacts
            /\ storedContacts' = saveContactsToStorage(updatedContacts)
            /\ ev' = Failing(WithArg(EvS("createContact", "online", TRUE,
                                         tasks[i].req.id, TRUE, resp.body,
                                         resp.status), tasks[i].arg),
                             SaveFailed)
            /\ UNCHANGED <<error, pendingOps>>
       ELSE /\ error' = createError(resp)
            /\ contacts' = Append(contacts, queued)
            /\ storedContacts' = saveContactsToStorage(Append(contacts, queued))
            /\ pendingOps' = addPendingOperation(pendingOps, "CREATE", queued, now)
            /\ ev' = Failing(WithArg(EvS("createContact", "online", TRUE,
                                         tasks[i].req.id, FALSE, NoContact,
                                         resp.status), tasks[i].arg),
                             {"createContact.post"})
  /\ tasks' = [tasks EXCEPT ![i] = Idle]
  /\ UNCHANGED <<online, loading, now, nextId, timers, reconnects, calls>>

CreateResume(i) ==
  /\ UNCHANGED <<uuids, storage>>
  /\ tasks[i].kind = "create"
  /\ \E out \in Answers(tasks[i].req) :
     LET resp == out.resp IN
     /\ db' = out.db
     /\ IF Resolved(resp)
       THEN LET updatedContacts == Append(contacts, resp.body) IN
            /\ contacts' = updatedContacts
            /\ storedContacts' = saveContactsToStorage(updatedContacts)
            /\ ev' = Failing(WithArg(EvS("createContact", "online", TRUE,
                                         tasks[i].req.id, TRUE, resp.body,
                                         resp.status), tasks[i].arg),
                             SaveFailed)
            /\ UNCHANGED error
       ELSE /\ error' = createError(resp)
            /\ ev' = Failing(WithArg(EvS("createContact", "online", TRUE,
                                         tasks[i].req.id, FALSE, NoContact,
                                         resp.status), tasks[i].arg),
                             {"createContact.post"})
            /\ UNCHANGED <<contacts, storedContacts>>
  /\ tasks' = [tasks EXCEPT ![i] = Idle]
  /\ UNCHANGED <<online, loading, pendingOps, now, nextId, timers, reconnects, calls>>

\* ------------------------------------------- updateContact, toggleFavorite
\* Faulty variant: the fields are merged and the cached picture is kept.
replaceAt_keepPicture(cs, index, contact) ==
  [cs EXCEPT ![index] = [contact EXCEPT !.picture = cs[index].picture]]

\* updatedContacts = [...contacts]; updatedContacts[index] = contact
replaceAt(cs, index, contact) == [cs EXCEPT ![index] = contact]

\* ContactService.performContactUpdate up to its await (online) or to its
\* end (offline).
\* arg: the form updateContact was called with (none for toggleFavorite).
performContactUpdate(op, arg, id, updatedContact, errorMessage) ==
  IF online
    THEN /\ HasFree
         /\ tasks' = [Disturbed EXCEPT ![FreeSlot] =
              [kind |-> "update", op |-> op, arg |-> arg,
               errorMessage |-> errorMessage,
               req |-> Req("PUT", id, updatedContact)]]
         /\ ev' = WithArg(Ev(op, "online", FALSE, id, FALSE, NoContact), arg)
         /\ UNCHANGED <<contacts, storedContacts, pendingOps, now>>
    ELSE LET queued == [updatedContact EXCEPT !.pendingSync = TRUE]
             index == findIndex(contacts, id) IN
         IF index # 0
           THEN LET updatedContacts == replaceAt(contacts, index, queued) IN
                /\ contacts' = updatedContacts
                /\ storedContacts' = saveContactsToStorage(updatedContacts)
                /\ \E t \in ClockReadings :
                     /\ now' = t
                     /\ pendingOps' = addPendingOperation(pendingOps, "UPDATE", queued, t)
                /\ ev' = Failing(WithArg(Ev(op, "offline", TRUE, id, TRUE, queued),
                                         arg),
                                 SaveFailed \cup AddFailed)
                /\ tasks' = Disturbed
           ELSE /\ ev' = WithArg(Ev(op, "offline", TRUE, id, FALSE, NoContact), arg)
                /\ tasks' = Disturbed
                /\ UNCHANGED <<contacts, storedContacts, pendingOps, now>>

UpdateContact(id, formData) ==
  /\ UNCHANGED <<uuids, storage>>
  /\ calls < MaxCalls
  /\ calls' = calls + 1
  /\ performContactUpdate("updateContact", formData, id,
                          transformFormDataToContact(formData, id),
                          "Failed to update contact")
  /\ UNCHANGED <<online, error, loading, db, nextId, timers, reconnects>>

\* Faulty variant: the contact is sent as it was read.
toggled_same(contact) == contact

\* { ...contact, isFavorite: !contact.isFavorite }
toggled(contact) == [contact EXCEPT !.isFavorite = ~ @]

ToggleFavorite(id) ==
  /\ UNCHANGED <<uuids, storage>>
  /\ calls < MaxCalls
  /\ calls' = calls + 1
  /\ LET index == findIndex(contacts, id) IN
     IF index = 0
       THEN /\ error' = "Contact not found"
            /\ ev' = Ev("toggleFavorite", Path, TRUE, id, FALSE, NoContact)
            /\ tasks' = Disturbed
            /\ UNCHANGED <<contacts, storedContacts, pendingOps, now>>
       ELSE /\ performContactUpdate("toggleFavorite", NoForm, id,
                 toggled(contacts[index]),
                 "Failed to update favorite status")
            /\ UNCHANGED error
  /\ UNCHANGED <<online, loading, db, nextId, timers, reconnects>>

\* performContactUpdate after its await.  Its catch takes every rejection,
\* so the 409 branch of updateContact is never reached.
UpdateResume(i) ==
  /\ UNCHANGED <<uuids, storage>>
  /\ tasks[i].kind = "update"
  /\ \E out \in Answers(tasks[i].req) :
     LET resp == out.resp
         id == tasks[i].req.id
         index == findIndex(contacts, id) IN
     /\ db' = out.db
     /\ IF Resolved(resp)
       THEN /\ IF index # 0
                 THEN LET updatedContacts == replaceAt(contacts, index, resp.body) IN
                      /\ contacts' = updatedContacts
                      /\ storedContacts' = saveContactsToStorage(updatedContacts)
                 ELSE UNCHANGED <<contacts, storedContacts>>
            /\ ev' = Failing(WithArg(EvS(tasks[i].op, "online", TRUE, id, TRUE,
                                         resp.body, resp.status), tasks[i].arg),
                             IF index # 0 THEN SaveFailed ELSE {})
            /\ UNCHANGED error
       ELSE /\ error' = tasks[i].errorMessage
            /\ ev' = Failing(WithArg(EvS(tasks[i].op, "online", TRUE, id, FALSE,
                                         NoContact, resp.status), tasks[i].arg),
                             {"performContactUpdate.put"})
            /\ UNCHANGED <<contacts, storedContacts>>
  /\ tasks' = [tasks EXCEPT ![i] = Idle]
  /\ UNCHANGED <<online, loading, pendingOps, now, nextId, timers, reconnects, calls>>

\* -------------------------------------------------------- deleteContact
\* contacts.find(c => c.id === id)
find(cs, id) == cs[findIndex(cs, id)]

\* Faulty variant: the collection is left as it is.
removeFromCache_keep(id) == UNCHANGED <<contacts, storedContacts>>

\* The tail of deleteContact: drop the contact from the collection and save.
removeFromCache(id) ==
  LET updatedContacts == withoutId(contacts, id) IN
  /\ contacts' = updatedContacts
  /\ storedContacts' = saveContactsToStorage(updatedContacts)

DeleteContact(id) ==
  /\ UNCHANGED <<uuids, storage>>
  /\ calls < MaxCalls
  /\ calls' = calls + 1
  /\ IF online
       THEN /\ HasFree
            /\ tasks' = [Disturbed EXCEPT ![FreeSlot] =
                 [kind |-> "delete", op |-> "deleteContact",
                  req |-> Req("DELETE", id, NoContact)]]
            /\ ev' = Ev("deleteContact", "online", FALSE, id, FALSE, NoContact)
            /\ UNCHANGED <<contacts, storedContacts, pendingOps, now>>
       ELSE /\ IF findIndex(contacts, id) # 0
                 THEN \E t \in ClockReadings :
                        /\ now' = t
                        /\ pendingOps' = addPendingOperation(pendingOps, "DELETE",
                                                             find(contacts, id), t)
                 ELSE UNCHANGED <<pendingOps, now>>
            /\ removeFromCache(id)
            /\ ev' = Failing(Ev("deleteContact", "offline", TRUE, id, TRUE, NoContact),
                             SaveFailed \cup
                               (IF findIndex(contacts, id) # 0 THEN AddFailed ELSE {}))
            /\ tasks' = Disturbed
  /\ UNCHANGED <<online, error, loading, db, nextId, timers, reconnects>>

\* Faulty variant: a delete the backend rejected is queued for the next drain.
DeleteResume_queueOnFailure(i) ==
  /\ UNCHANGED <<uuids, storage>>
  /\ tasks[i].kind = "delete"
  /\ \E out \in Answers(tasks[i].req) :
     LET resp == out.resp
         id == tasks[i].req.id IN
     /\ db' = out.db
     /\ IF Resolved(resp)
       THEN /\ removeFromCache(id)
            /\ ev' = Failing(EvS("deleteContact", "online", TRUE, id, TRUE,
                                 NoContact, resp.status), SaveFailed)
            /\ UNCHANGED <<error, pendingOps>>
       ELSE /\ error' = "Failed to delete contact"
            /\ pendingOps' = IF findIndex(contacts, id) # 0
                               THEN addPendingOperation(pendingOps, "DELETE",
                                                        find(contacts, id), now)
                               ELSE pendingOps
            /\ ev' = Failing(EvS("deleteContact", "online", TRUE, id, FALSE,
                                 NoContact, resp.status), {"deleteContact.delete"})
            /\ UNCHANGED <<contacts, storedContacts>>
  /\ tasks' = [tasks EXCEPT ![i] = Idle]
  /\ UNCHANGED <<online, loading, now, nextId, timers, reconnects, calls>>

DeleteResume(i) ==
  /\ UNCHANGED <<uuids, storage>>
  /\ tasks[i].kind = "delete"
  /\ \E out \in Answers(tasks[i].req) :
     LET resp == out.resp
         id == tasks[i].req.id IN
     /\ db' = out.db
     /\ IF Resolved(resp)
       THEN /\ removeFromCache(id)
            /\ ev' = Failing(EvS("deleteContact", "online", TRUE, id, TRUE,
                                 NoContact, resp.status), SaveFailed)
            /\ UNCHANGED error
       ELSE /\ error' = "Failed to delete contact"
            /\ ev' = Failing(EvS("deleteContact", "online", TRUE, id, FALSE,
                                 NoContact, resp.status), {"deleteContact.delete"})
            /\ UNCHANGED <<contacts, storedContacts>>
  /\ tasks' = [tasks EXCEPT ![i] = Idle]
  /\ UNCHANGED <<online, loading, pendingOps, now, nextId, timers, reconnects, calls>>

\* ----------------------------------------------------- addRandomContacts
\* What the suspended addRandomContacts can resume with.
RandomAnswers(req) ==
  post_contacts_random(db, req.count, uuids)
    \cup {[db |-> db, uuids |-> uuids, resp |-> RespList(0, <<>>)]}

\* The return of addRandomContacts.  added: the contacts it returns.
RandomEv(path, ok, added, status) ==
  [op |-> "addRandomContacts", path |-> path, done |-> TRUE, id |-> -1,
   ok |-> ok, ret |-> NoContact, status |-> status, arg |-> NoForm,
   failed |-> {}, threw |-> FALSE, added |-> added]

\* Faulty variant: the batch is requested whatever the connectivity flag says.
AddRandomContacts_noOnlineCheck(count) ==
  /\ calls < MaxCalls
  /\ calls' = calls + 1
  /\ HasFree
  /\ loading' = TRUE
  /\ tasks' = [Disturbed EXCEPT ![FreeSlot] =
       [kind |-> "random", pc |-> "post", added |-> <<>>,
        status |-> -1, req |-> [Req("RANDOM", -1, NoContact) EXCEPT !.count = count]]]
  /\ ev' = Ev("addRandomContacts", Path, FALSE, -1, FALSE, NoContact)
  /\ UNCHANGED <<online, contacts, error, storedContacts, pendingOps, db, now,
                 nextId, timers, reconnects, uuids, storage>>

\* ContactService.addRandomContacts up to its await (online) or to its end.
AddRandomContacts(count) ==
  /\ calls < MaxCalls
  /\ calls' = calls + 1
  /\ IF online
       THEN /\ HasFree
            /\ loading' = TRUE
            /\ tasks' = [Disturbed EXCEPT ![FreeSlot] =
                 [kind |-> "random", pc |-> "post", added |-> <<>>,
                  status |-> -1, req |-> [Req("RANDOM", -1, NoContact) EXCEPT !.count = count]]]
            /\ ev' = Ev("addRandomContacts", "online", FALSE, -1, FALSE, NoContact)
            /\ UNCHANGED error
       ELSE /\ error' = "Cannot add random contacts while offline"
            /\ loading' = FALSE
            /\ tasks' = Disturbed
            /\ ev' = RandomEv("offline", FALSE, <<>>, -1)
  /\ UNCHANGED <<online, contacts, storedContacts, pendingOps, db, now, nextId,
                 timers, reconnects, uuids, storage>>

\* addRandomContacts resumes with the answer to its POST: on 201 it calls
\* loadContacts and waits for it, otherwise it sets the error and returns [].
RandomPostResume(i) ==
  /\ tasks[i].kind = "random"
  /\ tasks[i].pc = "post"
  /\ \E out \in RandomAnswers(tasks[i].req) :
       /\ db' = out.db
       /\ uuids' = out.uuids
       /\ IF Resolved(out.resp)
            THEN /\ LoadStart(i, tasks, [tasks[i] EXCEPT !.pc = "reload",
                                                         !.added = out.resp.contacts,
                                                         !.status = out.resp.status])
                 /\ ev' = IF online
                            THEN EvS("addRandomContacts", "online", FALSE, -1,
                                     FALSE, NoContact, out.resp.status)
                            ELSE Failing(RandomEv("online", TRUE, out.resp.contacts,
                                                  out.resp.status),
                                         LoadStartFailed)
            ELSE /\ error' = "Failed to add random contacts"
                 /\ loading' = FALSE
                 /\ tasks' = [tasks EXCEPT ![i] = Idle]
                 /\ ev' = Failing(RandomEv("online", FALSE, <<>>, out.resp.status),
                                  {"addRandomContacts.post"})
                 /\ UNCHANGED <<contacts, storedContacts>>
  /\ UNCHANGED <<online, pendingOps, now, nextId, timers, reconnects, calls,
                 storage>>

\* addRandomContacts resumes when the loadContacts it waits for returns.
RandomReloadResume(i) ==
  /\ tasks[i].kind = "random"
  /\ tasks[i].pc = "reload"
  /\ \E out \in Answers(tasks[i].req) :
       /\ db' = out.db
       /\ LoadFinish(out.resp)
       /\ ev' = Failing(RandomEv("online", TRUE, tasks[i].added, tasks[i].status),
                        LoadFinishFailed(out.resp))
  /\ tasks' = [tasks EXCEPT ![i] = Idle]
  /\ UNCHANGED <<online, pendingOps, now, nextId, timers, reconnects, calls,
                 uuids, storage>>

\* -------------------------------------------------- syncPendingOperations
SyncInFlight == \E i \in Slots : tasks[i].kind = "sync"

\* A createContact, updateContact, toggleFavorite, deleteContact or
\* addRandomContacts is suspended on its remote call.
MutationInFlight ==
  \E i \in Slots : tasks[i].kind \in {"create", "update", "delete", "random"}

\* A drain that starts while others are suspended overlaps them.
MarkOverlap ==
  [i \in Slots |-> IF tasks[i].kind = "sync"
                     THEN [tasks[i] EXCEPT !.alone = FALSE] ELSE tasks[i]]

\* The return of syncPendingOperations.  ops: the log as read at the start;
\* successful: successfulOperations; statuses: for each record, the status
\* its call was answered with; outcomes: for each record, whether its call
\* resolved; reload: what the refresh callback did; quiet: no mutation was
\* suspended when the drain began and none was called while it ran; alone:
\* no other drain ran meanwhile.
SyncEv(t, successful, statuses, reload, status) ==
  [op |-> "syncPendingOperations", path |-> Path, done |-> TRUE, id |-> -1,
   ok |-> Len(successful) > 0, ret |-> NoContact, status |-> status,
   arg |-> NoForm, failed |-> {}, threw |-> FALSE, ops |-> t.ops,
   successful |-> successful,
   statuses |-> statuses,
   outcomes |-> [k \in 1..Len(statuses) |-> Resolved(Resp(statuses[k], NoContact))],
   reload |-> reload, quiet |-> t.quiet, alone |-> t.alone]

\* The reconnect timer fires: syncPendingOperations up to its first await.
\* With an empty log it goes straight to the refresh callback, loadContacts.
\* When the log cannot be read the outer catch returns false at once.
TimerFires ==
  /\ UNCHANGED <<uuids, storage>>
  /\ timers > 0
  /\ timers' = timers - 1
  /\ UNCHANGED reconnects
  /\ HasFree
  /\ LET t == [kind |-> "sync", pc |-> "replay", ops |-> pendingOps, idx |-> 1,
               successful |-> <<>>, statuses |-> <<>>, req |-> NoReq,
               quiet |-> ~MutationInFlight, alone |-> ~SyncInFlight] IN
     IF ReadFails
       THEN /\ ev' = Failing(SyncEv([t EXCEPT !.ops = <<>>], <<>>, <<>>, "none", -1),
                             {"syncPendingOperations.getItem"})
            /\ UNCHANGED <<contacts, error, loading, storedContacts, tasks>>
     ELSE IF Len(pendingOps) > 0
       THEN /\ tasks' = [MarkOverlap EXCEPT ![FreeSlot] =
                 [t EXCEPT !.req = ReplayRequest(pendingOps[1])]]
            /\ ev' = Ev("syncPendingOperations", Path, FALSE, -1, FALSE, NoContact)
            /\ UNCHANGED <<contacts, error, loading, storedContacts>>
       ELSE /\ LoadStart(FreeSlot, MarkOverlap, [t EXCEPT !.pc = "reload"])
            /\ ev' = IF online
                       THEN Ev("syncPendingOperations", Path, FALSE, -1, FALSE, NoContact)
                       ELSE SyncEv(t, <<>>, <<>>, "storage", -1)
  /\ UNCHANGED <<online, pendingOps, db, now, nextId, calls>>

\* Faulty variant: a rejected call ends the loop.
hasNext_stopOnFailure(t, resp) == Resolved(resp) /\ t.idx < Len(t.ops)

\* for (const op of operations) { try { await ... } catch { } }: after the
\* call for record idx resolved or rejected, the loop goes on to the next
\* record if there is one.
hasNext(t, resp) == t.idx < Len(t.ops)

\* The drain resumes with the answer to the call for record idx.  After the
\* last record it rewrites the log; when that write throws, the outer catch
\* returns false and the refresh callback is not called.
SyncReplayResume(i) ==
  /\ UNCHANGED <<uuids, storage>>
  /\ tasks[i].kind = "sync"
  /\ tasks[i].pc = "replay"
  /\ \E out \in Answers(tasks[i].req) :
     LET t == tasks[i]
         successfulOperations ==
           IF Resolved(out.resp) THEN Append(t.successful, t.ops[t.idx].id)
                                 ELSE t.successful
         statuses == Append(t.statuses, out.resp.status)
         replayFailed == IF Resolved(out.resp)
                           THEN {} ELSE {"syncPendingOperations.replay"} IN
     /\ db' = out.db
     /\ IF hasNext(t, out.resp)
       THEN /\ tasks' = [tasks EXCEPT ![i] =
                 [t EXCEPT !.idx = t.idx + 1,
                           !.successful = successfulOperations,
                           !.statuses = statuses,
                           !.req = ReplayRequest(t.ops[t.idx + 1])]]
            /\ ev' = Failing(Ev("syncPendingOperations", Path, FALSE, -1, FALSE,
                                NoContact), replayFailed)
            /\ UNCHANGED <<contacts, error, loading, storedContacts, pendingOps>>
       ELSE IF WriteFails
       THEN /\ tasks' = [tasks EXCEPT ![i] = Idle]
            /\ ev' = Failing([SyncEv(t, successfulOperations, statuses, "none", -1)
                                EXCEPT !.ok = FALSE],
                             replayFailed \cup {"syncPendingOperations.setItem"})
            /\ UNCHANGED <<contacts, error, loading, storedContacts, pendingOps>>
       ELSE /\ pendingOps' = remainingOperations(t.ops, successfulOperations)
            /\ IF Len(successfulOperations) > 0
                 THEN /\ LoadStart(i, tasks,
                           [t EXCEPT !.pc = "reload",
                                     !.successful = successfulOperations,
                                     !.statuses = statuses])
                      /\ ev' = Failing(IF online
                                         THEN Ev("syncPendingOperations", Path, FALSE,
                                                 -1, FALSE, NoContact)
                                         ELSE SyncEv(t, successfulOperations, statuses,
                                                     "storage", -1),
                                       replayFailed)
                 ELSE /\ tasks' = [tasks EXCEPT ![i] = Idle]
                      /\ ev' = Failing(SyncEv(t, successfulOperations, statuses,
                                              "none", -1), replayFailed)
                      /\ UNCHANGED <<contacts, error, loading, storedContacts>>
  /\ UNCHANGED <<online, now, nextId, timers, reconnects, calls>>

\* The drain resumes with the answer to the reload's GET.
SyncReloadResume(i) ==
  /\ UNCHANGED <<uuids, storage>>
  /\ tasks[i].kind = "sync"
  /\ tasks[i].pc = "reload"
  /\ \E out \in Answers(tasks[i].req) :
       /\ db' = out.db
       /\ LoadFinish(out.resp)
       /\ ev' = Failing(SyncEv(tasks[i], tasks[i].successful, tasks[i].statuses,
                               IF Resolved(out.resp) THEN "remote" ELSE "failed",
                               out.resp.status),
                        LoadFinishFailed(out.resp))
  /\ tasks' = [tasks EXCEPT ![i] = Idle]
  /\ UNCHANGED <<online, pendingOps, now, nextId, timers, reconnects,
                 calls>>

\* ---------------------------------------------------- softRefreshContacts
\* localImageMap.has(id): a contact of local has the id.  picture is an
\* object in every contact the engine or the backend builds, so the test
\* contact.picture passes whatever the three fields hold.
hasLocalPicture(local, id) == \E k \in 1..Len(local) : local[k].id = id

\* localImageMap.get(id): Map.set overwrites, so the last contact with the
\* id gives the picture.
localPicture(local, id) ==
  LET last == CHOOSE k \in 1..Len(local) :
                /\ local[k].id = id
                /\ \A j \in (k + 1)..Len(local) : local[j].id # id IN
  local[last].picture

\* Faulty variant: the server's contacts are taken as they are.
mergedContacts_serverOnly(local, server) == server

\* response.contacts.map(serverContact => ...): the server's contacts, each
\* with the picture localImageMap holds for its id, if any.
mergedContacts(local, server) ==
  [k \in 1..Len(server) |->
     IF hasLocalPicture(local, server[k].id)
       THEN [server[k] EXCEPT !.picture = localPicture(local, server[k].id)]
       ELSE server[k]]

\* The return of softRefreshContacts.  local: the snapshot read before the
\* GET; server: the contacts the GET returned; merged: the contacts returned.
SoftEv(ok, local, server, merged, status) ==
  [op |-> "softRefreshContacts", path |-> Path, done |-> TRUE, id |-> -1,
   ok |-> ok, ret |-> NoContact, status |-> status, arg |-> NoForm,
   failed |-> {}, threw |-> FALSE, local |-> local, server |-> server,
   merged |-> merged]

\* SyncService.softRefreshContacts up to its await.  It does not test the
\* connectivity flag.
SoftRefreshContacts ==
  /\ calls < MaxCalls
  /\ calls' = calls + 1
  /\ HasFree
  /\ tasks' = [tasks EXCEPT ![FreeSlot] =
       [kind |-> "soft", local |-> loadContactsFromStorage,
        req |-> Req("GET", -1, NoContact)]]
  /\ ev' = Failing(Ev("softRefreshContacts", Path, FALSE, -1, FALSE, NoContact),
                   ReadFailed)
  /\ UNCHANGED <<online, contacts, error, loading, storedContacts, pendingOps,
                 db, now, nextId, timers, reconnects, uuids, storage>>

\* softRefreshContacts after its await: the merged collection is saved and
\* returned; a rejected GET is logged and null is returned.
SoftRefreshResume(i) ==
  /\ tasks[i].kind = "soft"
  /\ \E out \in Answers(tasks[i].req) :
     LET local == tasks[i].local
         merged == mergedContacts(local, out.resp.contacts) IN
     /\ db' = out.db
     /\ IF Resolved(out.resp)
          THEN /\ storedContacts' = saveContactsToStorage(merged)
               /\ ev' = Failing(SoftEv(TRUE, local, out.resp.contacts, merged,
                                       out.resp.status), SaveFailed)
          ELSE /\ ev' = Failing(SoftEv(FALSE, local, <<>>, <<>>, out.resp.status),
                                {"softRefreshContacts.get"})
               /\ UNCHANGED storedContacts
  /\ tasks' = [tasks EXCEPT ![i] = Idle]
  /\ UNCHANGED <<online, contacts, error, loading, pendingOps, now, nextId,
                 timers, reconnects, calls, uuids, storage>>

\* ------------------------------------------------------------------ Spec
Next ==
  \/ BecameOnline
  \/ BecameOffline
  \/ TimerFires
  \/ LoadContacts
  \/ \E formData \in Forms : CreateContact(formData)
  \/ \E id \in KnownIds : \E formData \in Forms : UpdateContact(id, formData)
  \/ \E id \in KnownIds : ToggleFavorite(id)
  \/ \E id \in KnownIds : DeleteContact(id)
  \/ AddRandomContacts(MaxBatch)
  \/ \E i \in Slots : LoadResume(i)
  \/ \E i \in Slots : CreateResume(i)
  \/ \E i \in Slots : UpdateResume(i)
  \/ \E i \in Slots : DeleteResume(i)
  \/ \E i \in Slots : SyncReplayResume(i)
  \/ \E i \in Slots : SyncReloadResume(i)
  \/ \E i \in Slots : RandomPostResume(i)
  \/ \E i \in Slots : RandomReloadResume(i)

Spec == Init /\ [][Next]_vars

\* A first session: the backend's table is empty and no snapshot was left.
FirstRun == Init /\ db = {}

\* localStorage starts to fail: its quota is used up and it rejects every
\* write, or access to it is denied and it rejects every call.
StorageFails(mode) ==
  /\ storage = "ok"
  /\ storage' = mode
  /\ ev' = EnvEv
  /\ UNCHANGED <<online, contacts, error, loading, storedContacts, pendingOps,
                 db, now, nextId, timers, reconnects, tasks, calls, uuids>>

NextFaulty ==
  \/ Next
  \/ \E mode \in {"full", "denied"} : StorageFails(mode)

\* The engine on a browser whose localStorage can fail.
SpecFaulty == FirstRun /\ [][NextFaulty]_vars

\* A cached contact and a row of the table for softRefreshContacts to meet:
\* ids 0 and 1, pictures empty or not.
EmptyPicture == [large |-> "", medium |-> "", thumbnail |-> ""]
CachedContacts ==
  { [id |-> id, name |-> "a", email |-> IF id = 0 THEN "e1" ELSE "e2",
     picture |-> pic, isFavorite |-> FALSE, pendingSync |-> FALSE] :
    id \in {0, 1},
    pic \in {EmptyPicture, [large |-> "p4", medium |-> "p4", thumbnail |-> "p4"]} }
StoredRows ==
  { [id |-> id, name |-> IF id = 0 THEN "b" ELSE "a",
     email |-> IF id = 0 THEN "e1" ELSE "e2",
     picture_large |-> pic, picture_medium |-> pic, picture_thumbnail |-> pic] :
    id \in {0, 1}, pic \in {"", "p1"} }

\* The snapshots and tables a soft refresh can find: contacts with distinct
\* ids in the snapshot, rows with distinct ids in the table.
Snapshots ==
  {<<>>} \cup {<<c>> : c \in CachedContacts}
         \cup {<<c, d>> : c \in {x \in CachedContacts : x.id = 0},
                          d \in {x \in CachedContacts : x.id = 1}}
         \cup {<<d, c>> : c \in {x \in CachedContacts : x.id = 0},
                          d \in {x \in CachedContacts : x.id = 1}}
Tables ==
  {rows \in SUBSET StoredRows : \A r1, r2 \in rows : r1 # r2 => r1.id # r2.id}

\* A session that finds some snapshot and some table.
InitRefresh ==
  /\ online = TRUE
  /\ storedContacts \in Snapshots
  /\ db \in Tables
  /\ contacts = storedContacts
  /\ error = Null
  /\ loading = FALSE
  /\ pendingOps = <<>>
  /\ now = 0
  /\ nextId = 1
  /\ timers = 0
  /\ reconnects = 0
  /\ tasks = [i \in Slots |-> Idle]
  /\ calls = 0
  /\ uuids = 0
  /\ storage = "ok"
  /\ ev = EnvEv

NextRefresh ==
  \/ SoftRefreshContacts
  \/ \E i \in Slots : SoftRefreshResume(i)

\* softRefreshContacts, which nothing in the engine calls, applied to the
\* snapshots and tables above.
SpecRefresh == InitRefresh /\ [][NextRefresh]_vars

\* A suspended operation resumes.
Resume ==
  \E i \in Slots :
    \/ LoadResume(i)
    \/ CreateResume(i)
    \/ UpdateResume(i)
    \/ DeleteResume(i)
    \/ SyncReplayResume(i)
    \/ SyncReloadResume(i)
    \/ RandomPostResume(i)
    \/ RandomReloadResume(i)

\* A timer set with setTimeout fires, and a remote call is answered or fails
\* (the transport gives up at the latest): no timer waits for ever, and
\* while operations are suspended one of them resumes.
Fairness == WF_vars(TimerFires) /\ WF_vars(Resume)

SpecLive == FirstRun /\ [][Next]_vars /\ Fairness

\* ================================================================ claims
DrainDone == ev.op = "syncPendingOperations" /\ ev.done

\* The contact collections GET /contacts can return for the table as it is.
RemoteCollections ==
  { [i \in 1..Len(s) |-> transformContactFromDB(s[i])] : s \in SelectAll(db) }

\* A drain of a non-empty log in which every replayed call resolved, followed
\* by a reload that fetched from the backend, with no mutation and no other
\* drain running meanwhile.
C1_Scenario ==
  /\ DrainDone
  /\ Len(ev.ops) > 0
  /\ \A k \in 1..Len(ev.outcomes) : ev.outcomes[k]
  /\ ev.reload = "remote"
  /\ ev.quiet
  /\ ev.alone

\* C1: after offline mutations and a reconnect, when the backend accepts
\* every replayed call, the drain and its reload leave the pending log empty
\* and the collection (in memory and persisted) equal to the backend's.
C1_DrainLeavesLogEmptyAndCacheRemote ==
  C1_Scenario =>
    /\ pendingOps = <<>>
    /\ contacts \in RemoteCollections
    /\ storedContacts = contacts

C1_Witness == C1_Scenario /\ Len(ev.ops) >= 2 /\ Len(contacts) >= 1

\* The records of ops whose call did not resolve, in their order.
RECURSIVE FailedFrom(_, _, _)
FailedFrom(ops, outcomes, k) ==
  IF k > Len(ops) THEN <<>>
  ELSE IF outcomes[k] THEN FailedFrom(ops, outcomes, k + 1)
  ELSE <<ops[k]>> \o FailedFrom(ops, outcomes, k + 1)
FailedRecords(ops, outcomes) == FailedFrom(ops, outcomes, 1)

\* A drain of a non-empty log that returned, with no mutation and no other
\* drain running meanwhile.
UndisturbedDrainDone ==
  DrainDone /\ Len(ev.ops) > 0 /\ ev.quiet /\ ev.alone

\* C2: after a drain the log holds exactly the records whose own call
\* failed: every failed record is still there, every replayed one is gone.
C2_OnlyReplayedRecordsLeave ==
  UndisturbedDrainDone => pendingOps = FailedRecords(ev.ops, ev.outcomes)

\* The method of the call that replays a record.
MethodOf(operation) ==
  CASE operation = "CREATE" -> "POST"
    [] operation = "UPDATE" -> "PUT"
    [] operation = "DELETE" -> "DELETE"

\* C3: a drain holds the records in insertion order (timestamps never
\* decrease along it), and while it replays, the one call in flight is the
\* call for record idx and the calls for exactly the idx - 1 records before
\* it have resolved or rejected.
C3_ReplayInOrderOneAtATime ==
  \A i \in Slots :
    (tasks[i].kind = "sync" /\ tasks[i].pc = "replay") =>
      LET t == tasks[i] IN
      /\ t.idx \in 1..Len(t.ops)
      /\ Len(t.statuses) = t.idx - 1
      /\ t.req.method = MethodOf(t.ops[t.idx].operation)
      /\ t.req.id = t.ops[t.idx].data.id
      /\ \A j, k \in 1..Len(t.ops) :
           j < k => t.ops[j].timestamp <= t.ops[k].timestamp

C3_Witness ==
  \E i \in Slots :
    /\ tasks[i].kind = "sync"
    /\ tasks[i].pc = "replay"
    /\ tasks[i].idx = 2
    /\ tasks[i].ops[1].timestamp < tasks[i].ops[2].timestamp

\* C4: a drain attempts every record of the log it read, whatever the
\* outcome of the earlier calls.
C4_FailureDoesNotStopDrain ==
  DrainDone => Len(ev.outcomes) = Len(ev.ops)

C4_Witness ==
  /\ DrainDone
  /\ Len(ev.ops) >= 2
  /\ ~ ev.outcomes[1]
  /\ ev.outcomes[2]

\* Replaying records one after the other, each answered by the backend:
\* the table left and the statuses answered.
RECURSIVE ReplayAll(_, _)
ReplayAll(rows, ops) ==
  IF ops = <<>> THEN [db |-> rows, statuses |-> <<>>]
  ELSE LET out == CHOOSE o \in Handle(rows, ReplayRequest(Head(ops))) : TRUE
           rest == ReplayAll(out.db, Tail(ops)) IN
       [db |-> rest.db, statuses |-> <<out.resp.status>> \o rest.statuses]

\* An offline updateContact just returned a contact, and the only earlier
\* record of the log is the CREATE of that contact.
C5_Queued ==
  /\ ev.op = "updateContact"
  /\ ev.path = "offline"
  /\ ev.ok
  /\ Len(pendingOps) = 2
  /\ pendingOps[1].operation = "CREATE"
  /\ pendingOps[1].data.id = ev.id

\* A drain of CREATE then UPDATE for one id returned; the backend answered
\* both calls, nothing else ran meanwhile, and the table holds no other row.
C5_Drained ==
  /\ DrainDone
  /\ Len(ev.ops) = 2
  /\ ev.ops[1].operation = "CREATE"
  /\ ev.ops[2].operation = "UPDATE"
  /\ ev.ops[1].data.id = ev.ops[2].data.id
  /\ \A k \in 1..2 : ev.statuses[k] # 0
  /\ ev.quiet
  /\ ev.alone
  /\ \A r \in db : r.id = ev.ops[1].data.id

\* C5: an offline create followed by an offline update of the same contact
\* leaves CREATE then UPDATE for that id in the log; drained against an
\* otherwise empty table both calls succeed and the table holds the updated
\* contact under that id; replayed in the reverse order the UPDATE is
\* answered 404 and the CREATE still succeeds.
C5_CreateThenUpdateReplaysInOrder ==
  /\ C5_Queued =>
       /\ pendingOps[2].operation = "UPDATE"
       /\ pendingOps[2].data = ev.ret
       /\ pendingOps[2].data.id = pendingOps[1].data.id
       /\ ReplayAll({}, <<pendingOps[2], pendingOps[1]>>).statuses = <<404, 201>>
       /\ ReplayAll({}, <<pendingOps[2], pendingOps[1]>>).db =
            {transformContactForDB(pendingOps[1].data)}
  /\ C5_Drained =>
       /\ ev.statuses = <<201, 200>>
       /\ db = {transformContactForDB(ev.ops[2].data)}

C5_Witness ==
  /\ C5_Drained
  /\ ev.ops[1].data.email # ev.ops[2].data.email

\* C6 as stated: once deleteContact has returned, the contact is out of
\* the collection and the collection is persisted, whatever the remote call
\* answered.
C6_DeleteAlwaysRemoves ==
  (ev.op = "deleteContact" /\ ev.done) =>
    /\ findIndex(contacts, ev.id) = 0
    /\ storedContacts = contacts

\* C6 (amended): deleteContact removes the contact from the collection and
\* persists it when it runs offline or when the remote delete succeeded, and
\* then returns true; when the remote delete failed it returns false, sets
\* 'Failed to delete contact' and leaves the collection as it was.
C6_DeleteRemovesUnlessRemoteFailed ==
  [][ (ev'.op = "deleteContact" /\ ev'.done) =>
        LET id == ev'.id IN
        /\ ev'.ok <=> (ev'.path = "offline" \/ ev'.status = 200)
        /\ IF ev'.ok
             THEN /\ contacts' = SelectSeq(contacts, LAMBDA c : c.id # id)
                  /\ storedContacts' = contacts'
             ELSE /\ contacts' = contacts
                  /\ storedContacts' = storedContacts
                  /\ error' = "Failed to delete contact" ]_vars

C6_Witness ==
  /\ ev.op = "deleteContact"
  /\ ev.done
  /\ ev.status = 404
  /\ findIndex(contacts, ev.id) # 0
  /\ storedContacts = contacts

\* C7: an online createContact whose email is already in the backend's
\* table is answered 409, returns null and sets the duplicate-email error.
C7_DuplicateEmailAnswered409 ==
  [][ ( /\ ev'.op = "createContact"
        /\ ev'.path = "online"
        /\ ev'.done
        /\ ev'.status # 0
        /\ \E r \in db : r.email = ev'.arg.email ) =>
      ( /\ ev'.status = 409
        /\ ~ ev'.ok
        /\ error' = "Email already exists. Please use a different email address." )
    ]_vars

\* C8: updateContact on a cached contact whose three picture URLs are
\* non-empty keeps them when the form's picture is omitted or is one of
\* them, and sets all three to the form's picture otherwise.
C8_PicturesPreserved ==
  [][ ( /\ ev'.op = "updateContact"
        /\ ev'.done
        /\ ev'.ok
        /\ findIndex(contacts, ev'.id) # 0
        /\ find(contacts, ev'.id).picture.large # ""
        /\ find(contacts, ev'.id).picture.medium # ""
        /\ find(contacts, ev'.id).picture.thumbnail # "" ) =>
      LET old == find(contacts, ev'.id).picture
          new == find(contacts', ev'.id).picture
          pic == ev'.arg.picture IN
      IF pic \in {Undefined, Null, "", old.large, old.medium, old.thumbnail}
        THEN new = old
        ELSE new = [large |-> pic, medium |-> pic, thumbnail |-> pic] ]_vars

\* Slots that hold a suspended operation.
Busy(ts) == {i \in Slots : ts[i] # Idle}

\* C9: a createContact made offline returns a contact at once, appends it
\* to the collection with an id no cached, queued or stored contact has and
\* pendingSync true, persists the collection, appends one CREATE record
\* whose data is that contact, and sends nothing to the backend.
C9_OfflineCreate ==
  [][ (ev'.op = "createContact" /\ ev'.path = "offline") =>
        /\ ev'.done
        /\ ev'.ok
        /\ contacts' = Append(contacts, ev'.ret)
        /\ ev'.ret.pendingSync = TRUE
        /\ \A k \in 1..Len(contacts) : contacts[k].id # ev'.ret.id
        /\ \A k \in 1..Len(pendingOps) : pendingOps[k].data.id # ev'.ret.id
        /\ \A r \in db : r.id # ev'.ret.id
        /\ storedContacts' = contacts'
        /\ Len(pendingOps') = Len(pendingOps) + 1
        /\ SubSeq(pendingOps', 1, Len(pendingOps)) = pendingOps
        /\ pendingOps'[Len(pendingOps')].operation = "CREATE"
        /\ pendingOps'[Len(pendingOps')].data = ev'.ret
        /\ db' = db
        /\ Busy(tasks') = Busy(tasks)
        /\ \A i \in Busy(tasks) : tasks'[i].req = tasks[i].req ]_vars

C9_Witness ==
  /\ ev.op = "createContact"
  /\ ev.path = "offline"
  /\ ev.done
  /\ Len(contacts) = 2
  /\ Len(pendingOps) = 2

\* The engine's mutations.
Mutations == {"createContact", "updateContact", "toggleFavorite", "deleteContact"}

\* The number of records a step appended to the log (-1: the step did
\* something else to it).
Appended ==
  IF /\ Len(pendingOps') >= Len(pendingOps)
     /\ SubSeq(pendingOps', 1, Len(pendingOps)) = pendingOps
    THEN Len(pendingOps') - Len(pendingOps)
    ELSE -1

\* The step is the call of an engine operation (not its resumption).
IsCall == calls' = calls + 1

\* C10 as stated: every mutation called offline appends exactly one record;
\* no step of an operation called online, and no loadContacts, appends any.
C10_AppendIffOffline ==
  [][ (ev'.op \in Mutations \cup {"loadContacts"}) =>
        Appended = IF IsCall /\ ev'.op \in Mutations /\ ev'.path = "offline"
                     THEN 1 ELSE 0 ]_vars

\* C10 (amended): a createContact called offline, and an updateContact,
\* toggleFavorite or deleteContact called offline on a contact the collection
\* holds, appends exactly one record; called offline on an id the collection
\* does not hold they append none, and no step of an operation called
\* online, and no loadContacts, appends any.
C10_AppendIffOfflineAndCached ==
  [][ (ev'.op \in Mutations \cup {"loadContacts"}) =>
        Appended = IF /\ IsCall
                      /\ ev'.op \in Mutations
                      /\ ev'.path = "offline"
                      /\ (ev'.op = "createContact" \/ findIndex(contacts, ev'.id) # 0)
                     THEN 1 ELSE 0 ]_vars

C10_Witness ==
  /\ ev.op = "updateContact"
  /\ ev.path = "offline"
  /\ ev.done
  /\ ~ ev.ok
  /\ Len(pendingOps) = 1

\* C11: addRandomContacts called offline returns an empty list at once,
\* sends nothing to the backend, and leaves the collection, its persisted
\* snapshot and the pending log as they were.
C11_OfflineRandomIsNoOp ==
  [][ (ev'.op = "addRandomContacts" /\ ev'.path = "offline") =>
        /\ ev'.done
        /\ ev'.added = <<>>
        /\ contacts' = contacts
        /\ storedContacts' = storedContacts
        /\ pendingOps' = pendingOps
        /\ db' = db
        /\ Busy(tasks') = Busy(tasks)
        /\ \A i \in Busy(tasks) : tasks'[i].req = tasks[i].req ]_vars

C11_Witness ==
  /\ ev.op = "addRandomContacts"
  /\ ev.path = "offline"
  /\ ev.done
  /\ Len(contacts) >= 1
  /\ Len(pendingOps) >= 1

\* The number of drains suspended on a remote call.
NumSync(ts) == Cardinality({i \in Slots : ts[i].kind = "sync"})

\* The step invokes syncPendingOperations: a drain is suspended that was not
\* before, or a drain ran from its call to its return in the step.
DrainInvoked ==
  /\ ev'.op = "syncPendingOperations"
  /\ \/ NumSync(tasks') > NumSync(tasks)
     \/ NumSync(tasks') = NumSync(tasks) /\ ev'.done

\* C12: each became-online transition sets one timer, each timer that fires
\* invokes the drain once, a timer is never dropped and does fire, and
\* nothing but a timer firing invokes the drain.
C12_OneDrainPerReconnect ==
  /\ [][ /\ (~online /\ online') => timers' = timers + 1
         /\ (timers' > timers) => (~online /\ online' /\ timers' = timers + 1)
         /\ (timers' < timers) => (timers' = timers - 1 /\ DrainInvoked)
         /\ DrainInvoked => timers' = timers - 1 ]_vars
  /\ \A n \in 1..MaxTimers : (timers = n) ~> (timers < n)

C12_Witness ==
  /\ ev.op = "syncPendingOperations"
  /\ reconnects = 2
  /\ timers = 0
  /\ NumSync(tasks) = 2

\* The contact collections GET /contacts can return for a table.
CollectionsOf(rows) ==
  { [i \in 1..Len(s) |-> transformContactFromDB(s[i])] : s \in SelectAll(rows) }

\* C13: a drain that found the log empty sends no POST, PUT or DELETE,
\* leaves the log empty, and when its refresh fetched from the backend the
\* collection becomes the backend's with the locally held pictures kept.
C13_EmptyDrainSoftRefresh ==
  [][ ( /\ ev'.op = "syncPendingOperations"
        /\ ev'.done
        /\ Len(ev'.ops) = 0
        /\ ev'.quiet
        /\ ev'.alone
        /\ ev'.reload = "remote" ) =>
      ( /\ ev'.statuses = <<>>
        /\ db' = db
        /\ pendingOps' = <<>>
        /\ contacts' \in { mergedContacts(storedContacts, server) :
                             server \in CollectionsOf(db) } ) ]_vars

\* C14: no POST or PUT in flight carries pendingSync in its body, and no
\* contact the engine takes from an answer of the backend into the
\* collection carries pendingSync.
C14_PendingSyncStaysLocal ==
  /\ [](\A i \in Busy(tasks) :
          tasks[i].req.method \in {"POST", "PUT"} =>
            tasks[i].req.body.pendingSync = FALSE)
  /\ [][ ( /\ ev'.op \in {"createContact", "updateContact", "toggleFavorite"}
           /\ ev'.path = "online"
           /\ ev'.done
           /\ ev'.ok ) => ev'.ret.pendingSync = FALSE ]_vars
  /\ [][ ( /\ ev'.op \in {"loadContacts", "syncPendingOperations",
                          "addRandomContacts"}
           /\ ev'.done
           /\ contacts' # contacts
           /\ contacts' # storedContacts ) =>
         \A k \in 1..Len(contacts') : contacts'[k].pendingSync = FALSE ]_vars

\* C15: a full reload from the backend keeps the favourite flag a
\* successful online toggleFavorite left (a cached contact without
\* pendingSync got its flag from the backend's answer to an online toggle,
\* or never had it set).
C15_FavoriteSurvivesReload ==
  [][ (ev'.op = "loadContacts" /\ ev'.done /\ ev'.ok) =>
        \A k \in 1..Len(contacts) :
          ( /\ contacts[k].pendingSync = FALSE
            /\ findIndex(contacts', contacts[k].id) # 0 ) =>
          find(contacts', contacts[k].id).isFavorite = contacts[k].isFavorite
    ]_vars

\* C16: the backend's table never holds two rows with one id or with one
\* email, and a request the backend rejects (404, 500) leaves the table as
\* it was.
C16_RemoteUniqueness ==
  /\ [](\A r1, r2 \in db :
          r1 # r2 => (r1.id # r2.id /\ r1.email # r2.email))
  /\ [][ ev'.status \in {404, 500} => db' = db ]_vars

\* C16, its first half: the table never holds two rows with one id or with
\* one email.
RemoteRowsUnique ==
  \A r1, r2 \in db : r1 # r2 => (r1.id # r2.id /\ r1.email # r2.email)

\* C18 as stated: createContact returns a contact and no error is recorded,
\* or it returns null and an error is recorded.
C18_ContactXorError ==
  (ev.op = "createContact" /\ ev.done) =>
    \/ ev.ok /\ ev.ret # NoContact /\ error = Null
    \/ ~ ev.ok /\ ev.ret = NoContact /\ error # Null

\* C18 (amended): createContact returns a contact and leaves the recorded
\* error as it was (an error an earlier operation recorded stays), or it
\* returns null and records an error.
C18_ContactOrFreshError ==
  [][ (ev'.op = "createContact" /\ ev'.done) =>
        \/ ev'.ok /\ ev'.ret # NoContact /\ error' = error
        \/ /\ ~ ev'.ok
           /\ ev'.ret = NoContact
           /\ error' \in {"Failed to create contact",
                          "Email already exists. Please use a different email address."}
    ]_vars

C18_Witness ==
  /\ ev.op = "createContact"
  /\ ev.done
  /\ ev.ok
  /\ error = "Failed to create contact"

\* C19: at most one engine operation is suspended on a remote call at any
\* time.
C19_OneOperationInFlight == Cardinality(Busy(tasks)) <= 1

\* The answer the backend gives now to a PUT or DELETE in flight.
AnswerNow(req) ==
  IF req.method = "PUT" THEN put_contacts(db, req.id, req.body)
                        ELSE delete_contacts(db, req.id)

\* The rows of a table with another id.
Others(rows, id) == {r \in rows : r.id # id}

EmailTaken(req) ==
  /\ req.method = "PUT"
  /\ \E r \in db : r.id # req.id /\ r.email = req.body.email

StoragePoints ==
  {"loadContactsFromStorage.getItem", "saveContactsToStorage.setItem",
   "addPendingOperation.getItem", "addPendingOperation.setItem",
   "syncPendingOperations.getItem", "syncPendingOperations.setItem"}

\* The remote call of each mutation and of addRandomContacts.
OwnCalls ==
  {"createContact.post", "performContactUpdate.put", "deleteContact.delete",
   "addRandomContacts.post"}

\* C17 as stated, for the four mutations: no operation throws, and one that
\* met a remote or storage failure returns its failure value.
C17_FailureEndsInFailureValue ==
  /\ ~ ev.threw
  /\ (ev.done /\ ev.op \in Mutations /\ ev.failed # {}) => ~ ev.ok

\* C17 (amended): no operation throws.  A mutation or addRandomContacts whose
\* remote call failed returns its failure value and records an error.  A
\* storage failure is swallowed: a mutation that met nothing else returns what
\* it returns when storage works.  A drain that cannot read or rewrite the
\* pending log returns false.
C17_NeverThrowsStorageSwallowed ==
  /\ ~ ev.threw
  /\ (ev.done /\ ev.failed \cap OwnCalls # {}) =>
       /\ ~ ev.ok
       /\ ev.ret = NoContact
       /\ error # Null
       /\ ev.op = "addRandomContacts" => ev.added = <<>>
  /\ (ev.done /\ ev.op \in Mutations /\ ev.failed # {}
        /\ ev.failed \subseteq StoragePoints) => ev.ok
  /\ (ev.done /\ ev.op = "syncPendingOperations"
        /\ ev.failed \cap {"syncPendingOperations.getItem",
                           "syncPendingOperations.setItem"} # {}) => ~ ev.ok

C17_Witness ==
  /\ ev.op = "createContact"
  /\ ev.path = "offline"
  /\ ev.done
  /\ ev.ok
  /\ ev.failed = {"saveContactsToStorage.setItem", "addPendingOperation.setItem"}
  /\ pendingOps = <<>>
  /\ Len(contacts) > Len(storedContacts)

\* C21: the ids of the records in the pending log are pairwise distinct,
\* also when several records are appended within one clock tick.
C21_LogIdsDistinct ==
  \A j, k \in 1..Len(pendingOps) : j # k => pendingOps[j].id # pendingOps[k].id

\* The drain in slot i ends its loop in this step: it was replaying and now
\* reloads or has returned.
EndsLoop(i) ==
  /\ tasks[i].kind = "sync"
  /\ tasks[i].pc = "replay"
  /\ (tasks'[i] = Idle \/ tasks'[i].pc = "reload")

\* For each record of the drain in slot i, whether its call resolved, as
\* known when the loop ends.
OutcomesAtEnd(i) ==
  LET statuses == IF tasks'[i] = Idle THEN ev'.statuses ELSE tasks'[i].statuses IN
  [k \in 1..Len(statuses) |-> Resolved(Resp(statuses[k], NoContact))]

\* C22, first part: a step of a drain that does not end its loop leaves the
\* persisted log as it is, so the log is written neither before every record
\* was attempted nor a second time during the reload.
C22_NoWriteOutsideLoopEnd ==
  [][ (ev'.op = "syncPendingOperations" /\ ~ \E i \in Slots : EndsLoop(i)) =>
        pendingOps' = pendingOps ]_vars

\* C22: a drain does not write the persisted log until every record was
\* attempted; it then rewrites it once, to the records whose call did not
\* succeed, in their order.
C22_SingleRewriteOfFailedRecords ==
  /\ C22_NoWriteOutsideLoopEnd
  /\ [][ \A i \in Slots :
           EndsLoop(i) =>
             pendingOps' = FailedRecords(tasks[i].ops, OutcomesAtEnd(i)) ]_vars

\* The drain in slot i ends its loop with at least one call resolved.
SomeSucceeded(i) == \E k \in DOMAIN OutcomesAtEnd(i) : OutcomesAtEnd(i)[k]

\* C23, second part: a drain of a non-empty log in which no call resolved
\* returns without a reload and leaves the collection as it is.
C23_NoReloadWithoutSuccess ==
  [][ \A i \in Slots :
        (EndsLoop(i) /\ ~ SomeSucceeded(i)) =>
          /\ tasks'[i] = Idle
          /\ ev'.done
          /\ ev'.reload = "none"
          /\ contacts' = contacts
          /\ storedContacts' = storedContacts
          /\ error' = error
          /\ loading' = loading ]_vars

\* C23: after a drain in which a record was removed the reload is scheduled
\* for later, not run at once: the step that ends the loop sends no GET and
\* leaves the collection alone.  After a drain of a non-empty log in which no
\* call resolved there is no reload and the collection is unchanged.
C23_ReloadDelayed ==
  /\ [][ \A i \in Slots :
           (EndsLoop(i) /\ SomeSucceeded(i)) =>
             /\ tasks'[i] = Idle
             /\ contacts' = contacts
             /\ storedContacts' = storedContacts ]_vars
  /\ C23_NoReloadWithoutSuccess

\* One of the three picture fields holds something.
NonEmptyPicture(picture) ==
  picture.large # "" \/ picture.medium # "" \/ picture.thumbnail # ""

\* C24: a soft refresh replaces the snapshot by the contacts the backend
\* returned, same ids and same order, where a contact gets the locally held
\* picture if and only if a cached contact with its id has a non-empty
\* picture; everything else is the backend's.
C24_SoftRefreshKeepsNonEmptyPictures ==
  (ev.op = "softRefreshContacts" /\ ev.done /\ ev.ok) =>
    /\ storedContacts = ev.merged
    /\ Len(ev.merged) = Len(ev.server)
    /\ \A k \in 1..Len(ev.server) :
         LET cached == {j \in 1..Len(ev.local) :
                          /\ ev.local[j].id = ev.server[k].id
                          /\ NonEmptyPicture(ev.local[j].picture)} IN
         IF cached # {}
           THEN \E j \in cached :
                  ev.merged[k] = [ev.server[k] EXCEPT !.picture = ev.local[j].picture]
           ELSE ev.merged[k] = ev.server[k]

\* The slots whose operation was called in this step, and the slots whose
\* operation returned in it.
Started == Busy(tasks') \ Busy(tasks)
Returned == Busy(tasks) \ Busy(tasks')

C26_OnlineUpdateReplacesEntry ==
  [][ (ev'.op = "updateContact" /\ ev'.path = "online" /\ ev'.done /\ ev'.ok
         /\ findIndex(contacts, ev'.id) # 0) =>
        LET k == findIndex(contacts, ev'.id) IN
        /\ \A i \in Returned :
             ev'.ret = [transformFormDataToContact(ev'.arg, ev'.id)
                          EXCEPT !.id = tasks[i].req.id]
        /\ Len(contacts') = Len(contacts)
        /\ contacts'[k] = ev'.ret
        /\ \A j \in 1..Len(contacts) : j # k => contacts'[j] = contacts[j]
        /\ storedContacts' = contacts'
    ]_vars

C26_Witness ==
  /\ ev.op = "updateContact"
  /\ ev.path = "online"
  /\ ev.done
  /\ ev.ok
  /\ Len(contacts) >= 2
  /\ findIndex(contacts, ev.id) = 2
  /\ contacts[2] = ev.ret
  /\ ev.ret.picture.large = "p4"
  /\ storedContacts = contacts

\* C27: an offline deleteContact(id) of a cached contact appends one DELETE
\* record that carries the contact as the collection held it, sends nothing,
\* and removes the contact from the collection and its snapshot; a drain
\* replays such a record as a DELETE for the id of the contact it carries.
C27_OfflineDeleteQueuesContact ==
  /\ [][ (ev'.op = "deleteContact" /\ ev'.path = "offline"
            /\ findIndex(contacts, ev'.id) # 0) =>
           LET queued == pendingOps'[Len(pendingOps')] IN
           /\ ev'.done /\ ev'.ok
           /\ Len(pendingOps') = Len(pendingOps) + 1
           /\ SubSeq(pendingOps', 1, Len(pendingOps)) = pendingOps
           /\ queued.operation = "DELETE"
           /\ queued.data = find(contacts, ev'.id)
           /\ ReplayRequest(queued).method = "DELETE"
           /\ ReplayRequest(queued).id = ev'.id
           /\ Started = {} /\ Returned = {}
           /\ \A i \in Busy(tasks) : tasks'[i].req = tasks[i].req
           /\ db' = db
           /\ contacts' = withoutId(contacts, ev'.id)
           /\ findIndex(contacts', ev'.id) = 0
           /\ storedContacts' = contacts' ]_vars
  /\ [](\A i \in Slots :
          (tasks[i].kind = "sync" /\ tasks[i].pc = "replay"
             /\ tasks[i].ops[tasks[i].idx].operation = "DELETE") =>
            /\ tasks[i].req.method = "DELETE"
            /\ tasks[i].req.id = tasks[i].ops[tasks[i].idx].data.id)

C27_Witness ==
  \E i \in Slots :
    /\ tasks[i].kind = "sync"
    /\ tasks[i].pc = "replay"
    /\ tasks[i].ops[tasks[i].idx].operation = "DELETE"
    /\ tasks[i].ops[tasks[i].idx].data.id # tasks[i].ops[tasks[i].idx].id
    /\ \E r \in db : r.id = tasks[i].req.id
    /\ findIndex(contacts, tasks[i].req.id) = 0

\* The slots that hold a POST, PUT or DELETE sent in this step.
Sent ==
  {i \in Busy(tasks') :
     /\ tasks'[i].req.method \in {"POST", "PUT", "DELETE"}
     /\ (tasks[i] = Idle \/ tasks'[i].req # tasks[i].req)}

\* C28: an online createContact, updateContact, toggleFavorite or
\* deleteContact whose remote call failed sends nothing more and appends
\* nothing to the log; a POST, PUT or DELETE is sent only by the call of such
\* an operation or by a drain, and a drain starts only when a reconnect timer
\* fires.
C28_NoRetryOutsideDrain ==
  [][ /\ (ev'.op \in Mutations /\ ev'.path = "online" /\ ev'.done /\ ~ ev'.ok) =>
           /\ pendingOps' = pendingOps
           /\ Started = {}
           /\ Sent = {}
      /\ Sent # {} =>
           \/ IsCall /\ ev'.op \in Mutations /\ ~ ev'.done /\ Sent = Started
           \/ ev'.op = "syncPendingOperations"
      /\ NumSync(tasks') > NumSync(tasks) => timers' = timers - 1
    ]_vars

C28_Witness ==
  /\ ev.op = "deleteContact"
  /\ ev.path = "online"
  /\ ev.done
  /\ ~ ev.ok
  /\ ev.status = 500 \/ ev.status = 0
  /\ findIndex(contacts, ev.id) # 0
  /\ pendingOps = <<>>
  /\ Busy(tasks) = {}

\* s is t with some elements left out.
RECURSIVE IsSubSeq(_, _)
IsSubSeq(s, t) ==
  IF s = <<>> THEN TRUE
  ELSE IF t = <<>> THEN FALSE
  ELSE IF Head(s) = Head(t) THEN IsSubSeq(Tail(s), Tail(t))
  ELSE IsSubSeq(s, Tail(t))

\* s begins t.
IsPrefix(s, t) == Len(s) <= Len(t) /\ SubSeq(t, 1, Len(s)) = s

\* C29: a record is never modified while it is in the log.  Every record has
\* retryCount 0; a step that is not the rewrite of a drain only appends; the
\* rewrite of a drain leaves records it read, as it read them and in their
\* order, and when none of its calls resolved it leaves all of them, however
\* many drains failed before and whatever the clock says.
C29_RecordsNeverModified ==
  /\ [](\A k \in 1..Len(pendingOps) : pendingOps[k].retryCount = 0)
  /\ [][ IF \E i \in Slots : EndsLoop(i)
           THEN \A i \in Slots :
                  EndsLoop(i) =>
                    /\ IsSubSeq(pendingOps', tasks[i].ops)
                    /\ ~ SomeSucceeded(i) => pendingOps' = tasks[i].ops
           ELSE IsPrefix(pendingOps, pendingOps') ]_vars

C29_Witness ==
  /\ DrainDone
  /\ ~ ev.ok
  /\ ev.alone
  /\ reconnects = 2
  /\ timers = 0
  /\ Busy(tasks) = {}
  /\ Len(ev.ops) = 2
  /\ pendingOps = ev.ops
  /\ now > pendingOps[1].timestamp

\* C30: when the GET of an online loadContacts fails, the collection becomes
\* the persisted snapshot, the snapshot stays as it is, loading is false, and
\* the error is left set if and only if the snapshot is empty.
C30_FailedLoadFallsBackToSnapshot ==
  [][ ("loadContacts.get" \in ev'.failed) =>
        /\ contacts' = storedContacts
        /\ storedContacts' = storedContacts
        /\ loading' = FALSE
        /\ error' = IF storedContacts = <<>>
                      THEN "Failed to load contacts from server" ELSE Null
    ]_vars

C30_Witness ==
  /\ ev.op = "loadContacts"
  /\ ev.done
  /\ "loadContacts.get" \in ev.failed
  /\ Len(storedContacts) >= 1
  /\ contacts = storedContacts
  /\ error = Null
  /\ \E r \in db : findIndex(contacts, r.id) = 0

\* Record k is the last record of the log for the contact it carries.
LastForContact(ops, k) ==
  \A j \in (k + 1)..Len(ops) : ops[j].data.id # ops[k].data.id

\* The contact of record k of a log agrees with a snapshot: a CREATE or UPDATE
\* record has the contact it carries in the snapshot, a DELETE record has no
\* contact with that id in it.
Agrees(ops, k, snapshot) ==
  IF ops[k].operation = "DELETE"
    THEN findIndex(snapshot, ops[k].data.id) = 0
    ELSE \E j \in 1..Len(snapshot) : snapshot[j] = ops[k].data

\* C31: the return of a drain of a non-empty log, its reload included, with no
\* mutation called and no other drain running meanwhile, does not take the
\* optimistic state of a record that stays in the log out of the cache: a
\* record left in the log (the last one for its contact) that agreed with
\* the snapshot before the drain's last step agrees with the snapshot and
\* with the collection after it.
C31_OptimisticStateSurvivesDrain ==
  [][ ( /\ ev'.op = "syncPendingOperations"
        /\ ev'.done
        /\ Len(ev'.ops) > 0
        /\ ev'.quiet
        /\ ev'.alone ) =>
        \A k \in 1..Len(pendingOps') :
          ( /\ LastForContact(pendingOps', k)
            /\ Agrees(pendingOps', k, storedContacts) ) =>
          /\ Agrees(pendingOps', k, storedContacts')
          /\ Agrees(pendingOps', k, contacts') ]_vars

\* C32: when a drain that ran with no other drain ends its loop and rewrites
\* the log, the records appended to the log since the drain read it (the ones
\* after the records it read) are in the log it leaves.
C32_AppendedDuringDrainSurvive ==
  [][ \A i \in Slots :
        ( /\ EndsLoop(i)
          /\ tasks[i].alone
          /\ IsPrefix(tasks[i].ops, pendingOps) ) =>
        \A k \in (Len(tasks[i].ops) + 1)..Len(pendingOps) :
          \E j \in 1..Len(pendingOps') : pendingOps'[j] = pendingOps[k] ]_vars

\* The drain in slot i is replaying the records it read.
Replaying(i) == tasks[i].kind = "sync" /\ tasks[i].pc = "replay"

\* C33: two drains never replay at the same time logs that share a record, so
\* no record has its remote call in flight twice, however fast the
\* connectivity changes.
C33_NoTwoDrainsOverOneRecord ==
  \A i, j \in Slots :
    (i # j /\ Replaying(i) /\ Replaying(j)) =>
      /\ ~ \E k \in 1..Len(tasks[i].ops) : \E l \in 1..Len(tasks[j].ops) :
             tasks[i].ops[k] = tasks[j].ops[l]
      /\ tasks[i].req # tasks[j].req

\* C34: a step of a drain taken while the connectivity flag says offline
\* sends no request, and leaves the log and the snapshot as they are.
C34_DrainOnlyWhileOnline ==
  [][ (ev'.op = "syncPendingOperations" /\ ~ online') =>
        /\ \A i \in Busy(tasks') :
             tasks[i] # Idle /\ tasks'[i].req = tasks[i].req
        /\ pendingOps' = pendingOps
        /\ storedContacts' = storedContacts ]_vars

\* C35: while no operation is suspended on a remote call and localStorage
\* takes every write, the collection in memory is the persisted snapshot.
C35_CollectionEqualsSnapshot ==
  (Busy(tasks) = {} /\ storage = "ok") => contacts = storedContacts

\* C36: while no operation is suspended on a remote call, every contact of
\* the snapshot that has pendingSync set is carried by a record of the log.
C36_PendingContactHasRecord ==
  Busy(tasks) = {} =>
    \A k \in 1..Len(storedContacts) :
      storedContacts[k].pendingSync =>
        \E j \in 1..Len(pendingOps) :
          pendingOps[j].data.id = storedContacts[k].id

\* C37: when two successful toggleFavorite calls for one contact return one
\* right after the other (the second was made offline after the first had
\* returned, or was made online while the first was suspended), the cached
\* contact has the favourite flag it had when the first was called, which is
\* the negation of the flag in the contact the first returned.
C37_TwoTogglesRestore ==
  [][ ( /\ ev.op = "toggleFavorite" /\ ev.done /\ ev.ok
        /\ ev'.op = "toggleFavorite" /\ ev'.done /\ ev'.ok
        /\ ev'.id = ev.id
        /\ findIndex(contacts', ev.id) # 0 ) =>
        find(contacts', ev.id).isFavorite = ~ ev.ret.isFavorite ]_vars

\* The operations that write a contact back.
Writers == {"createContact", "updateContact", "toggleFavorite"}

\* C38: the step in which an online createContact, updateContact or
\* toggleFavorite sends its request, and the step in which it returns null
\* after the request failed, leave the collection, the snapshot and the
\* log as they are; so does an updateContact or toggleFavorite made offline
\* for an id the collection does not hold, which returns null at once.
C38_FailedWriteChangesNothing ==
  [][ /\ ( /\ ev'.op \in Writers
           /\ ev'.path = "online"
           /\ (~ ev'.done \/ ~ ev'.ok) ) =>
           /\ ev'.ret = NoContact
           /\ contacts' = contacts
           /\ storedContacts' = storedContacts
           /\ pendingOps' = pendingOps
      /\ ( /\ ev'.op \in {"updateContact", "toggleFavorite"}
           /\ ev'.path = "offline"
           /\ findIndex(contacts, ev'.id) = 0 ) =>
           /\ ev'.done
           /\ ~ ev'.ok
           /\ ev'.ret = NoContact
           /\ contacts' = contacts
           /\ storedContacts' = storedContacts
           /\ pendingOps' = pendingOps ]_vars

C38_Witness ==
  /\ ev.op = "toggleFavorite"
  /\ ev.path = "online"
  /\ ev.done
  /\ ~ ev.ok
  /\ ev.status = 404
  /\ error = "Failed to update favorite status"
  /\ findIndex(contacts, ev.id) # 0
  /\ find(contacts, ev.id).pendingSync
  /\ ~ find(contacts, ev.id).isFavorite
  /\ Len(pendingOps) = 1
  /\ storedContacts = contacts

\* The addRandomContacts in slot i resumes with the answer to its POST.
RandomAnswered(i) ==
  /\ tasks[i].kind = "random"
  /\ tasks[i].pc = "post"
  /\ tasks'[i] # tasks[i]

\* The contacts the answer to the POST of slot i carried.
AddedBy(i) == IF tasks'[i] = Idle THEN ev'.added ELSE tasks'[i].added

\* C39: when POST /contacts/random is answered with an error the table is as
\* it was before the request was handled; when it is answered 201 the rows
\* added to the table are exactly the contacts returned, and no row is lost.
C39_RandomBatchAllOrNothing ==
  [][ \A i \in Slots :
        RandomAnswered(i) =>
          IF ev'.status = 201
            THEN /\ db \subseteq db'
                 /\ db' \ db = {transformContactForDB(AddedBy(i)[k]) :
                                  k \in 1..Len(AddedBy(i))}
                 /\ Cardinality(db' \ db) = Len(AddedBy(i))
            ELSE db' = db ]_vars

====
